---- MODULE Spec2Model ----
(***************************************************************************)
(* Erlang-C staffing search with working vacations (src/main.py).          *)
(*                                                                         *)
(* The script blends a "normal" and a "vacation" traffic intensity, rounds *)
(* a blended starting agent count, and calls forward(), which evaluates    *)
(* waiting_probability / service_level_agreement at increasing agent       *)
(* counts until the service level reaches the target.                      *)
(*                                                                         *)
(* Python floats are modelled as decimal floating-point numbers            *)
(* [m |-> mantissa, e |-> exponent] of value m * 10^e, with Digits         *)
(* significant digits and round-half-even after every operation, so that   *)
(* rounding, absorption (1 - tiny = 1), overflow and division by zero are  *)
(* part of the model.  Python ints are TLA+ integers.                      *)
(***************************************************************************)
EXTENDS Integers, Sequences, FiniteSets

\* Significant decimal digits kept by a modelled float.
Digits == 7

\* Largest agent count the search is followed to (12! is the largest
\* factorial a 32-bit integer holds).
MaxAgents == 11

--------------------------------------------------------------------------
(* Decimal floating point                                                  *)

Base == 10 ^ (Digits - 1)

Limit == 10 ^ Digits

Abs(n) == IF n < 0 THEN -n ELSE n

Sign(n) == IF n < 0 THEN -1 ELSE IF n > 0 THEN 1 ELSE 0

\* a * b = q * c + r with 0 <= r < c, for 0 <= a, b and 0 < c, all at most
\* 10^8, computed four bits of b at a time so that no intermediate exceeds
\* 32 bits.
RECURSIVE MulDiv(_, _, _)
MulDiv(a, b, c) ==
  IF b = 0 THEN [q |-> 0, r |-> 0]
  ELSE LET h  == MulDiv(a, b \div 16, c)
           hi == 16 * h.r
           lo == (b % 16) * a
           s  == (hi % c) + (lo % c)
       IN  [q |-> 16 * h.q + (hi \div c) + (lo \div c) + (s \div c),
            r |-> s % c]

RECURSIVE NumDigits(_)
NumDigits(n) == IF n < 10 THEN 1 ELSE 1 + NumDigits(n \div 10)

\* A mantissa that rounding carried up to 10^Digits is brought back.
Carry(m, e) ==
  IF Abs(m) >= Limit THEN [m |-> m \div 10, e |-> e + 1] ELSE [m |-> m, e |-> e]

\* lo + d / (2 * half) to the nearest integer, ties to even; sticky says
\* that something below d was already dropped.
Nearest(lo, d, half, sticky) ==
  IF d > half \/ (d = half /\ (sticky \/ lo % 2 = 1)) THEN lo + 1 ELSE lo

\* Round for a q of n digits.
RoundDigits(q, sticky, e, n) ==
  IF n <= Digits
  THEN [m |-> q * 10 ^ (Digits - n), e |-> e - (Digits - n)]
  ELSE Carry(Nearest(q \div 10 ^ (n - Digits), q % 10 ^ (n - Digits),
                     5 * 10 ^ (n - Digits - 1), sticky),
             e + n - Digits)

\* The float nearest to (q + f) * 10^e, where 0 <= f < 1 and f > 0 iff
\* sticky; ties go to the even mantissa.
Round(q, sticky, e) ==
  IF q = 0 /\ ~sticky THEN [m |-> 0, e |-> 0]
  ELSE RoundDigits(q, sticky, e, NumDigits(Abs(q)))

\* The float of the decimal literal m * 10^e, and of a Python int.
Dec(m, e) == Round(m, FALSE, e)

FromInt(n) == Round(n, FALSE, 0)

Zero == [m |-> 0, e |-> 0]

One == [m |-> Base, e |-> 1 - Digits]

FNeg(a) == [m |-> -a.m, e |-> a.e]

\* r with the sign s.
Signed(s, r) == IF s < 0 THEN FNeg(r) ELSE r

\* The float nearest to (p.q + p.r / c) * 10^e for a quotient p of MulDiv
\* by c: a quotient of only Digits digits takes one more digit from the
\* remainder before it is rounded.
RoundQuot(p, c, e) ==
  Round(IF p.q < Limit THEN 10 * p.q + ((10 * p.r) \div c) ELSE p.q,
        IF p.q < Limit THEN (10 * p.r) % c # 0 ELSE p.r # 0,
        IF p.q < Limit THEN e - 1 ELSE e)

FMul(a, b) ==
  IF a.m = 0 \/ b.m = 0 THEN Zero
  ELSE Signed(Sign(a.m) * Sign(b.m),
              RoundQuot(MulDiv(Abs(a.m), Abs(b.m), Base), Base,
                        a.e + b.e + Digits - 1))

\* a / b for b # 0 (the caller decides what a zero divisor raises).
FDiv(a, b) ==
  IF a.m = 0 THEN Zero
  ELSE Signed(Sign(a.m) * Sign(b.m),
              RoundQuot(MulDiv(Abs(a.m), Limit, Abs(b.m)), Abs(b.m),
                        a.e - b.e - Digits))

\* The sum s * 10^e of a and b aligned with one guard digit, br / p being
\* what b lost: a sum that cancellation leaves with only Digits digits takes
\* one more digit of b before it is rounded.
RoundSum(s, br, p, e) ==
  Round(IF p >= 10 /\ Abs(s) < Limit THEN 10 * s + (br \div (p \div 10)) ELSE s,
        IF p >= 10 /\ Abs(s) < Limit THEN br % (p \div 10) # 0 ELSE br # 0,
        IF p >= 10 /\ Abs(s) < Limit THEN e - 1 ELSE e)

\* a + b for a.e > b.e, where p = 10^(a.e - b.e - 1).
FAddShifted(a, b, p) ==
  RoundSum(10 * a.m + (b.m \div p), b.m % p, p, a.e - 1)

\* a + b for nonzero a and b with a.e >= b.e.
FAddOrdered(a, b) ==
  IF a.e - b.e > Digits + 1 THEN a
  ELSE IF a.e = b.e THEN RoundSum(a.m + b.m, 0, 1, a.e)
  ELSE FAddShifted(a, b, 10 ^ (a.e - b.e - 1))

FAdd(a, b) ==
  IF a.m = 0 THEN b
  ELSE IF b.m = 0 THEN a
  ELSE FAddOrdered(IF a.e >= b.e THEN a ELSE b, IF a.e >= b.e THEN b ELSE a)

FSub(a, b) == FAdd(a, FNeg(b))

FLt(a, b) == FSub(a, b).m < 0

FLe(a, b) == FSub(a, b).m <= 0

FAbs(a) == [m |-> Abs(a.m), e |-> a.e]

\* The largest finite Python float, 1.7976931348623157e308, to Digits digits.
MaxFloat == Dec(17976931, 301)

\* A float result too large to represent.
Overflows(a) == FLt(MaxFloat, FAbs(a))

Square(a) == FMul(a, a)

\* a ** n for a float a and an int n >= 0, by repeated squaring.
RECURSIVE Pow(_, _)
Pow(a, n) ==
  IF n = 0 THEN One
  ELSE IF n % 2 = 1 THEN FMul(Pow(a, n - 1), a)
  ELSE Square(Pow(a, n \div 2))

\* math.factorial(n), an exact Python int.
RECURSIVE Fact(_)
Fact(n) == IF n <= 1 THEN 1 ELSE n * Fact(n - 1)

RECURSIVE ExpSeries(_, _, _, _)

\* One round of ExpSeries: next is sum plus the k-th term.
ExpStep(z, term, sum, next, k) ==
  IF next = sum THEN sum
  ELSE ExpSeries(z, FDiv(FMul(term, z), FromInt(k + 1)), next, k + 1)

\* The sum 1 + z + z^2/2! + ... from the k-th term on, until a term no
\* longer changes the sum.
ExpSeries(z, term, sum, k) == ExpStep(z, term, sum, FAdd(sum, term), k)

\* math.e ** z: z is halved until |z| <= 1, the series is summed there and
\* the result squared back.
RECURSIVE Exp(_)
Exp(z) ==
  IF FLe(FAbs(z), One) THEN ExpSeries(z, One, Zero, 0)
  ELSE Square(Exp(FMul(z, Dec(5, -1))))

\* m / 10^k rounded to the nearest integer, ties to even (k >= 0).
ShiftRound(m, k) ==
  IF k = 0 THEN m
  ELSE IF k > Digits THEN 0
  ELSE Nearest(m \div 10 ^ k, m % 10 ^ k, 5 * 10 ^ (k - 1), FALSE)

\* Python round(a, nd): the float nearest to a with nd decimals.
RoundTo(a, nd) ==
  IF a.m = 0 \/ a.e >= -nd THEN a
  ELSE Round(ShiftRound(a.m, (-nd) - a.e), FALSE, -nd)

\* Python round(a): the int nearest to a, ties to even.
RoundInt(a) ==
  IF a.e >= 0 THEN a.m * 10 ^ a.e ELSE ShiftRound(a.m, -a.e)

\* math.ceil(a): the least int >= a.
Ceil(a) ==
  IF a.e >= 0 THEN a.m * 10 ^ a.e
  ELSE IF -a.e > Digits THEN (IF a.m > 0 THEN 1 ELSE 0)
  ELSE IF a.m % 10 ^ (-a.e) = 0 THEN a.m \div 10 ^ (-a.e)
  ELSE (a.m \div 10 ^ (-a.e)) + 1

--------------------------------------------------------------------------
(* The script's constants (lines 18-32) and the values they are drawn from *)

\* (arrival rate, number of agents, service rate) of the normal regime; the
\* first is the script's own.
NormalRegimes ==
  {<<225, 7, 60>>, <<120, 2, 60>>, <<2100, 7, 60>>, <<360, 3, 40>>}

\* The same for the vacation regime; the first is the script's own.
VacationRegimes ==
  {<<375, 2, 25>>, <<375, 1, 25>>, <<750, 2, 25>>, <<22650, 151, 1>>}

\* vac_prob; 0.75 is the script's own.
VacationProbabilities == {Dec(0, 0), Dec(75, -2), Dec(1, 0)}

\* (target_answer_time, average_handling_time); <<20, 180>> is the script's.
AnswerTimes == {<<20, 180>>, <<29, 130>>, <<60, 1>>}

\* target_sla; 0.80 is the script's own.
TargetLevels == {Dec(80, -2), Dec(1, 0), Dec(15, -1)}

\* shrinkage (line 32).
Shrinkages == {Dec(30, -2)}

VARIABLES
  normal_arrival_rate, normal_num_agents, normal_service_rate,
  vacation_arrival_rate, vacation_num_agents, vacation_service_rate,
  vac_prob, average_handling_time, target_answer_time, target_sla,
  shrinkage,
  traffic_n, traffic_v, traffic,  \* lines 44-52
  num_agents,                     \* line 195, the starting agent count
  fwd_num_agents,                 \* forward's own num_agents
  wp, sla,                        \* forward's current wp and sla
  wp_list, sla_list, agent_list, average_answer_speed,
  percent_calls_answered_immediately, maximum_occupancy, num_shrinkage,
  pc,                             \* "script", "forward", "loop" or "done"
  outcome                         \* "running", "returned" or the exception

script_constants ==
  <<normal_arrival_rate, normal_num_agents, normal_service_rate,
    vacation_arrival_rate, vacation_num_agents, vacation_service_rate,
    vac_prob, average_handling_time, target_answer_time, target_sla,
    shrinkage>>

blended == <<traffic_n, traffic_v, traffic, num_agents>>

lists == <<wp_list, sla_list, agent_list, average_answer_speed,
           percent_calls_answered_immediately, maximum_occupancy,
           num_shrinkage>>

vars == <<script_constants, blended, fwd_num_agents, wp, sla, lists, pc, outcome>>

--------------------------------------------------------------------------
(* The functions of the script                                             *)

get_traffic_intensity(arrival_rate, agents, service_rate) ==
  FDiv(FromInt(arrival_rate), FromInt(agents * service_rate))

CombinedTrafficSwapped(p, tv, tn) ==
  FAdd(FMul(p, tn), FMul(FSub(One, p), tv))

\* traffic (line 52): the combined traffic.
CombinedTraffic(p, tv, tn) == FAdd(FMul(p, tv), FMul(FSub(One, p), tn))

\* num_agents (lines 195-197): the blended starting agent count.
StartingAgents(p, vacation_agents, normal_agents) ==
  RoundInt(FAdd(FMul(p, FromInt(vacation_agents)),
                FMul(FSub(One, p), FromInt(normal_agents))))

\* x of waiting_probability (lines 80-87).
WaitingX(n, traffic_intensity) ==
  FDiv(FMul(FDiv(Pow(traffic_intensity, n), FromInt(Fact(n))), FromInt(n)),
       FSub(FromInt(n), traffic_intensity))

\* y of waiting_probability after k rounds of its loop (lines 88-91).
RECURSIVE WaitingY(_, _)
WaitingY(k, traffic_intensity) ==
  IF k = 0 THEN One
  ELSE FAdd(WaitingY(k - 1, traffic_intensity),
            FDiv(Pow(traffic_intensity, k - 1), FromInt(Fact(k - 1))))

\* What waiting_probability raises, or "none": the power overflows before
\* anything is divided, and the divisions by n - traffic_intensity and by
\* y + x fail on zero.
WaitingRaises(n, traffic_intensity) ==
  IF Overflows(Pow(traffic_intensity, n)) THEN "OverflowError"
  ELSE IF FSub(FromInt(n), traffic_intensity).m = 0 THEN "ZeroDivisionError"
  ELSE IF FAdd(WaitingY(n, traffic_intensity),
               WaitingX(n, traffic_intensity)).m = 0
       THEN "ZeroDivisionError"
  ELSE "none"

\* Line 93: x / (y + x).
WaitingRatio(x, y) == FDiv(x, FAdd(y, x))

waiting_probability(n, traffic_intensity) ==
  WaitingRatio(WaitingX(n, traffic_intensity), WaitingY(n, traffic_intensity))

\* The power of e in service_level_agreement (lines 102-107).
ServiceExp(n, traffic_intensity, tat, aht) ==
  Exp(FNeg(FMul(FSub(FromInt(n), traffic_intensity),
                FDiv(FromInt(tat), FromInt(aht)))))

ServiceRaises(n, traffic_intensity, tat, aht) ==
  IF Overflows(ServiceExp(n, traffic_intensity, tat, aht))
  THEN "OverflowError" ELSE "none"

service_level_agreement(n, wait_prob, traffic_intensity, tat, aht) ==
  FSub(One, FMul(wait_prob, ServiceExp(n, traffic_intensity, tat, aht)))

--------------------------------------------------------------------------
(* The run of the script                                                   *)

\* Lines 18-32: the constants are set; nothing is computed yet.
Init ==
  /\ \E r \in NormalRegimes :
       /\ normal_arrival_rate = r[1]
       /\ normal_num_agents = r[2]
       /\ normal_service_rate = r[3]
  /\ \E r \in VacationRegimes :
       /\ vacation_arrival_rate = r[1]
       /\ vacation_num_agents = r[2]
       /\ vacation_service_rate = r[3]
  /\ vac_prob \in VacationProbabilities
  /\ \E t \in AnswerTimes :
       /\ target_answer_time = t[1]
       /\ average_handling_time = t[2]
  /\ target_sla \in TargetLevels
  /\ shrinkage \in Shrinkages
  /\ traffic_n = Zero
  /\ traffic_v = Zero
  /\ traffic = Zero
  /\ num_agents = 0
  /\ fwd_num_agents = 0
  /\ wp = Zero
  /\ sla = Zero
  /\ wp_list = <<>>
  /\ sla_list = <<>>
  /\ agent_list = <<>>
  /\ average_answer_speed = <<>>
  /\ percent_calls_answered_immediately = <<>>
  /\ maximum_occupancy = <<>>
  /\ num_shrinkage = <<>>
  /\ pc = "script"
  /\ outcome = "running"

\* Lines 44-52 and 195-214: the two traffic intensities, the combined
\* traffic and the starting agent count are computed and forward is called
\* with them (lines 121-127: its lists start empty).
Blend ==
  /\ pc = "script"
  /\ traffic_n' = get_traffic_intensity(normal_arrival_rate,
                                        normal_num_agents,
                                        normal_service_rate)
  /\ traffic_v' = get_traffic_intensity(vacation_arrival_rate,
                                        vacation_num_agents,
                                        vacation_service_rate)
  /\ traffic' = CombinedTraffic(vac_prob, traffic_v', traffic_n')
  /\ num_agents' = StartingAgents(vac_prob, vacation_num_agents,
                                  normal_num_agents)
  /\ fwd_num_agents' = num_agents'
  /\ pc' = "forward"
  /\ UNCHANGED <<script_constants, wp, sla, lists, outcome>>

\* The appends of one evaluation at agent count n (lines 144-154, and
\* again 168-178), in the order of the code, until a statement raises:
\* raisedWp and raisedSla are what waiting_probability and
\* service_level_agreement raise, newWp and newSla what they return.
Record(n, raisedWp, newWp, raisedSla, newSla) ==
  /\ fwd_num_agents' = n
  /\ IF raisedWp # "none"
     THEN /\ outcome' = raisedWp
          /\ pc' = "done"
          /\ UNCHANGED <<wp, sla, lists>>
     ELSE IF raisedSla # "none"
     THEN /\ outcome' = raisedSla
          /\ pc' = "done"
          /\ wp' = newWp
          /\ wp_list' = Append(wp_list, newWp)
          /\ UNCHANGED <<sla, sla_list, agent_list, average_answer_speed,
                         percent_calls_answered_immediately,
                         maximum_occupancy, num_shrinkage>>
     ELSE /\ outcome' = "running"
          /\ pc' = "loop"
          /\ wp' = newWp
          /\ wp_list' = Append(wp_list, newWp)
          /\ sla' = newSla
          /\ sla_list' =
               Append(sla_list, RoundTo(FMul(newSla, FromInt(100)), 2))
          /\ agent_list' = Append(agent_list, n)
          /\ average_answer_speed' =
               Append(average_answer_speed,
                      RoundTo(FDiv(FMul(newWp, FromInt(average_handling_time)),
                                   FSub(FromInt(n), traffic)), 1))
          /\ percent_calls_answered_immediately' =
               Append(percent_calls_answered_immediately,
                      RoundTo(FMul(FSub(One, newWp), FromInt(100)), 2))
          /\ maximum_occupancy' =
               Append(maximum_occupancy,
                      RoundTo(FMul(FDiv(traffic, FromInt(n)), FromInt(100)), 2))
          /\ num_shrinkage' =
               Append(num_shrinkage,
                      Ceil(FDiv(FromInt(n), FSub(One, shrinkage))))

\* The service level of one evaluation, for the waiting probability newWp.
EvaluateService(n, raisedWp, newWp) ==
  Record(n, raisedWp, newWp,
         ServiceRaises(n, traffic, target_answer_time, average_handling_time),
         service_level_agreement(n, newWp, traffic, target_answer_time,
                                 average_handling_time))

\* One evaluation at agent count n (lines 135-154, and again 159-178).
Evaluate(n) ==
  EvaluateService(n, WaitingRaises(n, traffic),
                  waiting_probability(n, traffic))

LoopConditionFlipped(level, target) == FLt(target, level)

\* Line 157: the condition of the while loop.
LoopCondition(level, target) == FLt(level, target)

NextAgentCountSkipping(n) == n + 2

\* Line 158: num_agents += 1.
NextAgentCount(n) == n + 1

\* An agent count the model can evaluate: the factorial fits, or the power
\* overflows before the factorial is taken.
Evaluable(n) == n <= MaxAgents \/ Overflows(Pow(traffic, n))

\* Lines 135-154: the first evaluation, at the starting agent count.
FirstEvaluation ==
  /\ pc = "forward"
  /\ Evaluable(fwd_num_agents)
  /\ Evaluate(fwd_num_agents)
  /\ UNCHANGED <<script_constants, blended>>

\* Lines 157-178: one round of the while loop.
Iterate ==
  /\ pc = "loop"
  /\ LoopCondition(sla, target_sla)
  /\ Evaluable(NextAgentCount(fwd_num_agents))
  /\ Evaluate(NextAgentCount(fwd_num_agents))
  /\ UNCHANGED <<script_constants, blended>>

\* Lines 157 and 180-188: the loop condition fails and the lists are
\* returned.
Return ==
  /\ pc = "loop"
  /\ ~LoopCondition(sla, target_sla)
  /\ pc' = "done"
  /\ outcome' = "returned"
  /\ UNCHANGED <<script_constants, blended, fwd_num_agents, wp, sla, lists>>

Next == Blend \/ FirstEvaluation \/ Iterate \/ Return

Spec == Init /\ [][Next]_vars

--------------------------------------------------------------------------
(* Properties                                                              *)

\* The agent counts at which forward has evaluated the queue so far.
Evaluated ==
  IF pc \in {"script", "forward"} THEN {} ELSE num_agents..fwd_num_agents

\* 100 * target_sla, the target as a percentage.
TargetPercent == FMul(target_sla, FromInt(100))

IsPrefix(s, t) == Len(s) <= Len(t) /\ SubSeq(t, 1, Len(s)) = s

\* C1: every agent count at which forward evaluates the queue is strictly
\* greater than the traffic intensity, the first one included.
C1_EvaluatedAboveTraffic ==
  \A n \in Evaluated : FLt(traffic, FromInt(n))

\* C2 as stated: when forward returns, the last recorded service level is
\* at least 100 * target and every earlier one is below 100 * target.
C2_FirstCrossingStrict ==
  outcome = "returned" =>
    /\ FLe(TargetPercent, sla_list[Len(sla_list)])
    /\ \A i \in 1..(Len(sla_list) - 1) : FLt(sla_list[i], TargetPercent)

\* C2 amended: when forward returns, the unrounded service level of the
\* last evaluation is at least the target, the last recorded service level
\* is at least round(100 * target, 2) and every earlier one is at most
\* round(100 * target, 2).
C2_FirstCrossingRounded ==
  outcome = "returned" =>
    /\ ~FLt(sla, target_sla)
    /\ FLe(RoundTo(TargetPercent, 2), sla_list[Len(sla_list)])
    /\ \A i \in 1..(Len(sla_list) - 1) :
         FLe(sla_list[i], RoundTo(TargetPercent, 2))

\* Witness of C2: forward has returned after more than one evaluation and
\* an entry before the last is recorded as exactly the target percentage.
C2_Witness ==
  /\ outcome = "returned"
  /\ Len(sla_list) >= 2
  /\ \E i \in 1..(Len(sla_list) - 1) : sla_list[i] = RoundTo(TargetPercent, 2)

\* C3: an evaluation at an agent count not above the traffic intensity
\* ends the search with an UnstableQueue error and appends nothing for
\* that count.
C3_UnstableQueueRaised ==
  \A n \in Evaluated :
    FLe(FromInt(n), traffic) =>
      /\ outcome = "UnstableQueue"
      /\ fwd_num_agents = n
      /\ Len(wp_list) <= n - num_agents

\* C4: with a target of 1.0 or more the search ends, and ends only with a
\* ConvergenceFailure.
C4_ConvergenceFailure ==
  (FLe(One, target_sla) /\ pc = "done") => outcome = "ConvergenceFailure"

\* C5: with a target below 1.0 and a starting agent count above the
\* traffic intensity, the search ends only by returning with the service
\* level at or above the target.
C5_EndsWithTargetMet ==
  (FLt(target_sla, One) /\ FLt(traffic, FromInt(num_agents)) /\ pc = "done")
    => (outcome = "returned" /\ ~FLt(sla, target_sla))

\* C6: every waiting probability appended to wp_list lies in [0, 1].
C6_ProbabilityInUnitInterval ==
  \A i \in 1..Len(wp_list) : FLe(Zero, wp_list[i]) /\ FLe(wp_list[i], One)

\* The standard Erlang-C closed form x / (S + x), with
\* x = (A^N / N!) * N / (N - A) and S the sum of A^i / i! for i < N.
RECURSIVE ErlangSum(_, _)
ErlangSum(k, a) ==
  IF k = 0 THEN Zero
  ELSE FAdd(ErlangSum(k - 1, a), FDiv(Pow(a, k - 1), FromInt(Fact(k - 1))))

ErlangC(n, a) ==
  LET x == FDiv(FMul(FDiv(Pow(a, n), FromInt(Fact(n))), FromInt(n)),
                FSub(FromInt(n), a))
  IN  FDiv(x, FAdd(ErlangSum(n, a), x))

\* C7: at every agent count above the traffic intensity the recorded
\* waiting probability is within 1e-6 of the Erlang-C closed form.
C7_MatchesErlangC ==
  \A i \in 1..Len(agent_list) :
    FLt(traffic, FromInt(agent_list[i])) =>
      FLe(FAbs(FSub(wp_list[i], ErlangC(agent_list[i], traffic))),
          Dec(1, -6))

\* C8: the waiting probability never increases with the agent count: not
\* along wp_list, and not from an evaluated agent count to any larger one
\* that a search can evaluate.
C8_ProbabilityNonIncreasing ==
  /\ \A i \in 1..(Len(wp_list) - 1) : FLe(wp_list[i + 1], wp_list[i])
  /\ \A i \in 1..Len(agent_list) :
       \A n \in (agent_list[i] + 1)..MaxAgents :
         WaitingRaises(n, traffic) = "none" =>
           FLe(waiting_probability(n, traffic), wp_list[i])

\* C9: with vac_prob = 0 the combined traffic and the starting agent count
\* are those of the normal regime, with vac_prob = 1 those of the vacation
\* regime.
C9_BlendDegenerates ==
  pc # "script" =>
    /\ vac_prob = Zero =>
         /\ traffic = get_traffic_intensity(normal_arrival_rate,
                                            normal_num_agents,
                                            normal_service_rate)
         /\ num_agents = normal_num_agents
    /\ vac_prob = One =>
         /\ traffic = get_traffic_intensity(vacation_arrival_rate,
                                            vacation_num_agents,
                                            vacation_service_rate)
         /\ num_agents = vacation_num_agents

\* Witness of C9: the blend was computed with vac_prob = 1 for two regimes
\* of different traffic and different agent counts.
C9_Witness ==
  /\ pc # "script"
  /\ vac_prob = One
  /\ traffic_v # traffic_n
  /\ vacation_num_agents # normal_num_agents
  /\ traffic = traffic_v

\* While forward loops and when it returns, its seven lists are aligned.
ListsAligned ==
  (pc = "loop" \/ outcome = "returned") =>
    /\ Len(agent_list) >= 1
    /\ Len(wp_list) = Len(agent_list)
    /\ Len(sla_list) = Len(agent_list)
    /\ Len(average_answer_speed) = Len(agent_list)
    /\ Len(percent_calls_answered_immediately) = Len(agent_list)
    /\ Len(maximum_occupancy) = Len(agent_list)
    /\ Len(num_shrinkage) = Len(agent_list)
    /\ \A i \in 1..Len(agent_list) : agent_list[i] = num_agents + i - 1

\* A step leaves every entry already in a list in place.
ListsAppendOnly ==
  /\ IsPrefix(wp_list, wp_list')
  /\ IsPrefix(sla_list, sla_list')
  /\ IsPrefix(agent_list, agent_list')
  /\ IsPrefix(average_answer_speed, average_answer_speed')
  /\ IsPrefix(percent_calls_answered_immediately,
              percent_calls_answered_immediately')
  /\ IsPrefix(maximum_occupancy, maximum_occupancy')
  /\ IsPrefix(num_shrinkage, num_shrinkage')

\* C10: while forward loops and when it returns, the seven lists have the
\* same length, at least 1, the agent counts are start, start + 1, ...
\* without gap or repeat, and no step changes or removes an entry.
C10_ListsGrowTogether == [](ListsAligned) /\ [][ListsAppendOnly]_vars

\* Witness of C10: forward has returned lists of at least three entries.
C10_Witness == outcome = "returned" /\ Len(agent_list) >= 3

====
